---- MODULE Spec2Model ----
(***************************************************************************)
(* Model of the purser hardware-wallet signing pipeline: the static        *)
(* methods signTransaction, signMessage and verifyMessage of the Ledger    *)
(* and Trezor modules (src/src/purser-ledger/staticMethods.ts and          *)
(* src/src/purser-trezor/staticMethods.ts).                                *)
(*                                                                         *)
(* Encodings.  A hex string is a sequence of characters, each character a  *)
(* number: 0..15 is the hex digit of that value, X (16) is the letter 'x'  *)
(* of the "0x" prefix.  A Buffer is a sequence of bytes 0..255.  Optional  *)
(* values are sequences of length 0 (absent) or 1 (present).               *)
(*                                                                         *)
(* The EthereumTx object is its nine Buffer fields, written through the    *)
(* field setters of ethereumjs-util (zero handling, leading zeros), and    *)
(* serialized as RLP.  The validators of purser-core are not part of the   *)
(* sources: a request carries whether each of them accepts it.             *)
(*                                                                         *)
(* A JavaScript object is a function from its property names to their      *)
(* values.  Where one object mixes strings and numbers, a value is written *)
(* with its type (JsString, JsNumber).                                     *)
(***************************************************************************)
EXTENDS Integers, Sequences, FiniteSets, TLC

VARIABLES calls, templates

vars == <<calls, templates>>

(***************************************************************************)
(* Bounds of the model.                                                    *)
(***************************************************************************)
\* chain ids of the requests: 1..MaxChainId
MaxChainId == 2
\* numeric request fields (gasPrice, gasLimit) range over 1..MaxGas
MaxGas == 2

HexDigits == 0..15

\* the letter 'x' of a hex string: the first character that is no hex digit
X == Cardinality(HexDigits)

Prefix0x == <<0, X>>

(***************************************************************************)
(* String and Buffer primitives of the JavaScript runtime.                 *)
(***************************************************************************)
RECURSIVE NumToHex(_)
\* Number.prototype.toString(16) / BN.toString(16): no padding, "0" for zero
NumToHex(n) ==
  IF n < 16 THEN <<n>> ELSE NumToHex(n \div 16) \o <<n % 16>>

RECURSIVE HexToNum(_)
\* the integer a sequence of hex digits denotes
HexToNum(h) ==
  IF h = <<>> THEN 0 ELSE 16 * HexToNum(SubSeq(h, 1, Len(h) - 1)) + h[Len(h)]

RECURSIVE BufferFromHex(_)
\* Buffer.from(string, 'hex'): decodes pairs of hex digits and stops at the
\* first pair that is not two hex digits (or at a single trailing digit)
BufferFromHex(s) ==
  IF Len(s) < 2 \/ s[1] \notin HexDigits \/ s[2] \notin HexDigits
  THEN <<>>
  ELSE <<16 * s[1] + s[2]>> \o BufferFromHex(SubSeq(s, 3, Len(s)))

RECURSIVE BufferToHex(_)
\* buffer.toString('hex'): two hex digits per byte
BufferToHex(b) ==
  IF b = <<>> THEN <<>>
  ELSE <<b[1] \div 16, b[1] % 16>> \o BufferToHex(SubSeq(b, 2, Len(b)))

RECURSIVE StripZeros(_)
\* ethereumjs-util stripZeros: drops the leading zero bytes
StripZeros(b) ==
  IF b # <<>> /\ b[1] = 0 THEN StripZeros(SubSeq(b, 2, Len(b))) ELSE b

\* Object.assign(target, source) on a fresh copy of target: the properties
\* of source, and those of target that source does not have
ObjectAssign(target, source) ==
  [p \in DOMAIN target \cup DOMAIN source |->
     IF p \in DOMAIN source THEN source[p] ELSE target[p]]

\* a string and a number as property values
JsString(s) == [type |-> "string", value |-> s]

JsNumber(n) == [type |-> "number", value |-> n]

(***************************************************************************)
(* purser-core normalizers.                                                *)
(***************************************************************************)
HasPrefix(s) == Len(s) >= 2 /\ s[1] = 0 /\ s[2] = X

StripPrefix(s) == IF HasPrefix(s) THEN SubSeq(s, 3, Len(s)) ELSE s

\* hexSequenceNormalizer(hexString, prefix = true): the sequence with the
\* 0x prefix (prefix) or without it (not prefix)
hexSequenceNormalizer(s, prefix) ==
  IF prefix THEN Prefix0x \o StripPrefix(s) ELSE StripPrefix(s)

\* multipleOfTwoHexValueNormalizer: left-pads with one zero digit when the
\* number of digits is odd
multipleOfTwoHexValueNormalizer(s) ==
  IF Len(s) % 2 = 1 THEN <<0>> \o s ELSE s

\* addressNormalizer(address, prefix = true)
addressNormalizer(a, prefix) == hexSequenceNormalizer(a, prefix)

(***************************************************************************)
(* ethereumjs-tx Transaction: the nine fields, each a Buffer.              *)
(***************************************************************************)
\* ethereumjs-util padToEven
padToEven(s) == IF Len(s) % 2 = 1 THEN <<0>> \o s ELSE s

\* ethereumjs-util toBuffer of a 0x-prefixed hex string
toBuffer(s) == BufferFromHex(padToEven(StripPrefix(s)))

\* the fields whose setter keeps a single zero byte (allowZero)
AllowZero == {"to", "data", "v", "r", "s"}

\* the fields whose setter strips leading zero bytes (allowLess)
AllowLess == {"nonce", "gasPrice", "gasLimit", "value", "r", "s"}

\* the setter of one field of the transaction (ethereumjs-util defineProperties)
SetField(name, buf) ==
  LET z == IF buf = <<0>> /\ name \notin AllowZero THEN <<>> ELSE buf
  IN  IF name \in AllowLess THEN StripZeros(z) ELSE z

\* RLP of one byte string
RlpItem(b) ==
  IF Len(b) = 1 /\ b[1] < 128 THEN b
  ELSE IF Len(b) < 56 THEN <<128 + Len(b)>> \o b
  ELSE <<184, Len(b)>> \o b

\* transaction.serialize(): the RLP list of the nine fields, in the order
\* nonce, gasPrice, gasLimit, to, value, data, v, r, s
Serialize(tx) ==
  LET body == RlpItem(tx.nonce) \o RlpItem(tx.gasPrice) \o RlpItem(tx.gasLimit)
              \o RlpItem(tx.to) \o RlpItem(tx.value) \o RlpItem(tx.data)
              \o RlpItem(tx.v) \o RlpItem(tx.r) \o RlpItem(tx.s)
  IN  IF Len(body) < 56 THEN <<192 + Len(body)>> \o body
      ELSE <<248, Len(body)>> \o body

(***************************************************************************)
(* Program constants and inputs.                                           *)
(***************************************************************************)
\* SIGNATURE.R and SIGNATURE.S of purser-core/defaults: the placeholders
SIGNATURE_R == 0
SIGNATURE_S == 0

\* STD_ERRORS of purser-trezor/defaults: the messages the Trezor service
\* fails with when the user cancels; the texts are named, not spelled out
CANCEL_TX_SIGN == "STD_ERRORS.CANCEL_TX_SIGN"
CANCEL_ACC_EXPORT == "STD_ERRORS.CANCEL_ACC_EXPORT"

\* the cancel signal of the Ledger transport
LEDGER_CANCEL == "ledger cancel signal"

\* any other failure of a backend
DEVICE_ERROR == "device error"

\* the payload templates of purser-trezor/payloads, shared by all calls:
\* each holds the properties that are the same in every request of its kind
PAYLOAD_SIGNTX == [template |-> "PAYLOAD_SIGNTX"]

PAYLOAD_SIGNMSG == [template |-> "PAYLOAD_SIGNMSG"]

PAYLOAD_VERIFYMSG == [template |-> "PAYLOAD_VERIFYMSG"]

PAYLOAD_XPUB == [template |-> "PAYLOAD_XPUB"]

Backends == {"ledger", "trezor"}

Ops == {"signTransaction", "signMessage", "verifyMessage"}

\* the operations of a backend: the Trezor module also opens the wallet
Operations(backend) == IF backend = "trezor" THEN Ops \cup {"open"} ELSE Ops

SignOps == {"signTransaction", "signMessage"}

ValidPath == "m/44'/60'/0'/0/0"

DerivationPaths == {ValidPath, "not-a-path"}

\* addresses, as 0x-prefixed hex strings
Addresses == {<<0, X, 13, 14, 10, 13>>}

\* input data, as 0x-prefixed hex strings
InputDatas == {<<0, X>>, <<0, X, 6, 0>>}

Nonces == {0, 3}

Values == {1}

\* the signature components a backend returns, as unprefixed hex strings
RComponents == {<<10, 10>>, <<12, 1, 12, 2>>}

SComponents == {<<11, 11>>}

\* the recovery values a backend returns for chain id c: a raw recovery id,
\* the chain-agnostic 27/28, or the EIP-155 value
RecoveryValues(c) == {0, 1, 27, 28, 2 * c + 35, 2 * c + 36}

\* the signed transactions the injected callback returns, with and without
\* the 0x prefix
SignedTransactions == {<<15, 8, 6, 11>>, <<0, X, 15, 8, 6, 12>>}

\* the message signatures the Trezor service returns
Signatures == {<<10, 10, 11, 11, 1, 12>>}

\* message texts, as the bytes of their characters: the text "hi"
Messages == {<<104, 105>>}

\* message data, as bytes
MessageDatas == {<<222, 173>>}

\* Buffer.from(toSign).toString('hex')
MessageHex(toSign) == BufferToHex(toSign)

(***************************************************************************)
(* The requests of the three operations.                                   *)
(***************************************************************************)
\* the optional values of S: absent, or one of S
Optional(S) == {<<>>} \cup {<<x>> : x \in S}

\* fieldsValid: the fields that are given pass transactionObjectValidator; a
\* request without inputData does not
TransactionRequests ==
  {r \in [fieldsValid : BOOLEAN, derivationPath : DerivationPaths,
          chainId : 1..MaxChainId, gasPrice : 1..MaxGas, gasLimit : 1..MaxGas,
          nonce : Nonces, value : Values, to : Optional(Addresses),
          inputData : Optional(InputDatas)] :
     r.inputData = <<>> => ~r.fieldsValid}

\* isObject: the argument is an object
MessageRequests ==
  [isObject : BOOLEAN, derivationPath : DerivationPaths,
   message : Optional(Messages), messageData : Optional(MessageDatas)]

\* keyValid: the address (Trezor) or public key (Ledger) is valid;
\* fieldsValid: message and signature pass messageVerificationObjectValidator
VerificationRequests ==
  [keyValid : BOOLEAN, fieldsValid : BOOLEAN, key : Addresses,
   message : Messages, signature : Signatures]

\* the argument of wallet.sign: the chain id may be left out
WalletTransactionRequests ==
  {[r EXCEPT !.chainId = c] :
     r \in TransactionRequests, c \in Optional(1..MaxChainId)}

\* the argument of open
OpenRequests == [isObject : BOOLEAN, chainId : 1..MaxChainId]

\* the argument of the software signTransaction: the transaction object and
\* the injected callback (callback: a function is given).  Called with no
\* argument at all (given is FALSE) there is no callback, and the fields are
\* the defaults of the validator
SoftwareRequests ==
  {r \in [given : BOOLEAN, callback : BOOLEAN, fieldsValid : BOOLEAN,
          chainId : 1..MaxChainId, gasPrice : 1..MaxGas, gasLimit : 1..MaxGas,
          nonce : Nonces, value : Values, to : Optional(Addresses),
          inputData : Optional(InputDatas)] :
     /\ r.inputData = <<>> => ~r.fieldsValid
     /\ ~r.given => /\ ~r.callback
                    /\ r.chainId = 1 /\ r.gasPrice = 1 /\ r.gasLimit = 1
                    /\ r.nonce = 0 /\ r.to = <<>>
                    /\ r.inputData = <<Prefix0x>>}

RequestsOf(op) ==
  CASE op = "signTransaction" -> TransactionRequests
    [] op = "signMessage" -> MessageRequests
    [] op = "verifyMessage" -> VerificationRequests
    [] op = "open" -> OpenRequests

\* the arguments of operation op, called as a wallet method or directly
ArgumentsOf(wallet, op) ==
  IF wallet /\ op = "signTransaction" THEN WalletTransactionRequests
  ELSE RequestsOf(op)

(***************************************************************************)
(* The state: one record per call.                                         *)
(*   pc         position of the call in its program (a step name), or a    *)
(*              terminal state Done, Cancelled, Failed                     *)
(*   wallet     the call is made through the method of a wallet instance   *)
(*   arg        the object the caller passes, req: the argument of the     *)
(*              static method                                              *)
(*   awaits     the promises the call has awaited so far, in order         *)
(*   validated  the validators that have accepted the request              *)
(*   connects   device connections requested; requests: signing or         *)
(*              verification requests issued to the backend                *)
(*   tx         the EthereumTx object, payload: what is sent to the        *)
(*              backend, resp: what the backend answered                   *)
(*   invalid    the validation error thrown, if any                        *)
(*   warned     the warnings the catch block has logged                    *)
(*   out        the settled promise: resolved with a value or rejected     *)
(*              with an error                                              *)
(***************************************************************************)
\* the callers: one call in Spec, two calls at the same time in
\* ConcurrentSpec
Caller == {1}

ConcurrentCallers == {1, 2}

\* the calls of a behaviour
CallIds == DOMAIN calls

IdleCall ==
  [pc |-> "Idle", backend |-> "none", op |-> "none", wallet |-> FALSE,
   arg |-> <<>>, req |-> <<>>, awaits |-> <<>>,
   validated |-> {}, connects |-> 0, requests |-> 0, tx |-> <<>>,
   payload |-> <<>>, resp |-> <<>>, invalid |-> <<>>, warned |-> <<>>,
   out |-> <<>>]

Terminal == {"Done", "Cancelled", "Failed"}

\* new Error(message), with the context dump and the message of the caught
\* error that the message text embeds
Error(message, context, cause) ==
  [message |-> message, context |-> context, cause |-> cause]

Resolved(value) == [status |-> "resolved", value |-> value, error |-> <<>>]

\* the value of a function that returns nothing
undefined == "undefined"

Rejected(error) == [status |-> "rejected", value |-> <<>>, error |-> <<error>>]

(***************************************************************************)
(* The program of each operation: its steps in source order, and the       *)
(* first step inside its try block (0: no try block).                      *)
(***************************************************************************)
Program(backend, op) ==
  CASE backend = "trezor" /\ op = "signTransaction" ->
         <<"validateFields", "validatePath", "build", "send", "await",
           "assemble">>
    [] backend = "ledger" /\ op = "signTransaction" ->
         <<"validateFields", "connect", "awaitConnection", "validatePath",
           "build", "send", "await", "assemble">>
    [] backend = "trezor" /\ op = "signMessage" ->
         <<"checkArgument", "validatePath", "validateFields", "build", "send",
           "await", "assemble">>
    [] backend = "ledger" /\ op = "signMessage" ->
         <<"checkArgument", "validatePath", "validateFields", "connect",
           "awaitConnection", "build", "send", "await", "assemble">>
    [] backend = "trezor" /\ op = "verifyMessage" ->
         <<"validateKey", "validateFields", "build", "send", "await",
           "assemble">>
    [] backend = "ledger" /\ op = "verifyMessage" ->
         <<"validateKey", "validateFields", "build", "send", "await",
           "assemble">>
    [] backend = "trezor" /\ op = "open" ->
         <<"userInput", "build", "send", "await", "assemble">>
    [] backend = "software" /\ op = "signTransaction" ->
         <<"validateFields", "build", "invoke", "await", "assemble">>

TryStart(backend, op) ==
  CASE backend = "trezor" /\ op = "signTransaction" -> "send"
    [] backend = "ledger" /\ op = "signTransaction" -> "connect"
    [] backend = "trezor" /\ op = "signMessage" -> "build"
    [] backend = "ledger" /\ op = "signMessage" -> "connect"
    [] backend = "trezor" /\ op = "verifyMessage" -> "build"
    [] backend = "ledger" /\ op = "verifyMessage" -> "none"
    [] backend = "trezor" /\ op = "open" -> "send"
    [] backend = "software" /\ op = "signTransaction" -> "build"

\* the steps of the wallet method in front of the static method:
\* userInputValidator, then the await of the wallet's derivation path or
\* public key (the Trezor verifyMessage reads this.address, with no await)
WalletProgram(backend, op) ==
  IF backend = "trezor" /\ op = "verifyMessage"
  THEN <<"userInput">>
  ELSE <<"userInput", "awaitProperty">>

\* the whole program of call k
ProgramOf(k) ==
  IF k.wallet THEN WalletProgram(k.backend, k.op) \o Program(k.backend, k.op)
  ELSE Program(k.backend, k.op)

IndexOf(seq, x) == CHOOSE i \in 1..Len(seq) : seq[i] = x

\* the step after step pc in the program of call k
NextStep(k) ==
  LET prog == ProgramOf(k)
      i == IndexOf(prog, k.pc)
  IN  IF i = Len(prog) THEN "Done" ELSE prog[i + 1]

\* whether step pc of call k lies inside the try block of its operation
InTry(k) ==
  LET prog == ProgramOf(k)
      t == TryStart(k.backend, k.op)
  IN  t # "none" /\ IndexOf(prog, k.pc) >= IndexOf(prog, t)

(***************************************************************************)
(* Validators (purser-core/validators and purser-core/helpers).  Each      *)
(* either accepts the value or throws its own error.                       *)
(***************************************************************************)
derivationPathValidator(path) == path = ValidPath

\* messageOrDataValidator({ message, messageData }): exactly one of the two
\* is given
messageOrDataValidator(obj) ==
  (obj.message = <<>>) # (obj.messageData = <<>>)

\* signMessage passes only the message to the validator
MessageOrDataArgumentMessageOnly(req) ==
  [message |-> req.message, messageData |-> <<>>]

\* the object signMessage passes to messageOrDataValidator
MessageOrDataArgument(req) ==
  [message |-> req.message, messageData |-> req.messageData]

\* what messageOrDataValidator returns: the bytes to sign
ToSign(req) ==
  IF req.message # <<>> THEN req.message[1] ELSE req.messageData[1]

derivationPathNormalizer(path) == path

\* bip32-path fromString(path, true).toPathArray() of the valid path: one
\* index per segment; a hardened index (high bit set) is written <<i, TRUE>>
PathArray(path) ==
  <<<<44, TRUE>>, <<60, TRUE>>, <<0, TRUE>>, <<0, FALSE>>, <<0, FALSE>>>>

\* the properties the wallet method requires of its argument: all of
\* RequiredAll, and one of RequiredOr
RequiredAll(backend, op, arg) ==
  CASE op = "signTransaction" /\ backend = "trezor" ->
         IF arg.to = <<>> THEN {"inputData"} ELSE {"to"}
    [] op = "signTransaction" /\ backend = "ledger" -> {}
    [] op = "signMessage" -> {}
    [] op = "verifyMessage" -> {"message", "signature"}
    [] op = "open" -> {}

RequiredOr(op) == IF op = "signMessage" THEN {"message", "messageData"} ELSE {}

\* userInputValidator({ firstArgument, requiredAll, requiredOr }): the
\* argument is an object that has every property of requiredAll and, when
\* requiredOr names any, at least one of them
userInputValidator(isObject, firstArgument, requiredAll, requiredOr) ==
  /\ isObject
  /\ \A p \in requiredAll : firstArgument[p] # <<>>
  /\ requiredOr # {} => \E p \in requiredOr : firstArgument[p] # <<>>

\* the derivation path and the address or public key of the wallet instance
WalletDerivationPath == ValidPath

WalletKey == <<0, X, 13, 14, 10, 13>>

\* the chain id of the wallet instance
WalletChainId == MaxChainId

\* a wallet method that lets the properties of the caller's object win:
\* Object.assign({}, { derivationPath, chainId }, transactionObject)
WalletArgumentCallerFirst(op, arg) ==
  CASE op = "signTransaction" ->
         [arg EXCEPT !.chainId = IF @ = <<>> THEN WalletChainId ELSE @[1]]
    [] op = "signMessage" ->
         [isObject |-> TRUE, derivationPath |-> arg.derivationPath,
          message |-> arg.message, messageData |-> arg.messageData]
    [] op = "verifyMessage" ->
         [arg EXCEPT !.keyValid = TRUE, !.key = WalletKey]

\* a wallet method that always signs for the chain of the wallet
WalletArgumentWalletChain(op, arg) ==
  CASE op = "signTransaction" ->
         [arg EXCEPT !.derivationPath = WalletDerivationPath,
                     !.chainId = WalletChainId]
    [] op = "signMessage" ->
         [isObject |-> TRUE, derivationPath |-> WalletDerivationPath,
          message |-> arg.message, messageData |-> arg.messageData]
    [] op = "verifyMessage" ->
         [arg EXCEPT !.keyValid = TRUE, !.key = WalletKey]

\* the object the wallet method passes to the static method: a copy of the
\* caller's object with the wallet's derivation path, and with the chain id
\* of the wallet when the caller gave none
WalletArgument(op, arg) ==
  CASE op = "signTransaction" ->
         [arg EXCEPT !.derivationPath = WalletDerivationPath,
                     !.chainId = IF @ = <<>> THEN WalletChainId ELSE @[1]]
    [] op = "signMessage" ->
         [isObject |-> TRUE, derivationPath |-> WalletDerivationPath,
          message |-> arg.message, messageData |-> arg.messageData]
    [] op = "verifyMessage" ->
         [arg EXCEPT !.keyValid = TRUE, !.key = WalletKey]

\* whether the validator of step `step` accepts the request of call k
Accepts(k, step) ==
  CASE step = "userInput" ->
         userInputValidator(k.op \in {"signMessage", "open"} => k.arg.isObject,
                            k.arg,
                            RequiredAll(k.backend, k.op, k.arg), RequiredOr(k.op))
    [] step = "checkArgument" -> k.req.isObject
    [] step = "validateKey" -> k.req.keyValid
    [] step = "validateFields" ->
         IF k.op = "signMessage"
         THEN messageOrDataValidator(MessageOrDataArgument(k.req))
         ELSE k.req.fieldsValid
    [] step = "validatePath" -> derivationPathValidator(k.req.derivationPath)

\* the error the validator of step `step` throws
ValidationError(k, step) ==
  CASE step = "userInput" -> Error("argumentsFormatExplanation", <<>>, "")
    [] step = "checkArgument" -> Error("signMessageArgumentMissing", <<>>, "")
    [] step = "validateKey" -> Error("invalid address or public key", <<>>, "")
    [] step = "validateFields" -> Error("invalid request object", <<>>, "")
    [] step = "validatePath" -> Error("invalid derivation path", <<>>, "")

ValidationSteps ==
  {"userInput", "checkArgument", "validateKey", "validateFields", "validatePath"}

(***************************************************************************)
(* Error classification.                                                   *)
(***************************************************************************)
\* the terminal state of a call that settles with `outcome`
Settle(outcome) ==
  [pc |-> IF outcome.status = "resolved" THEN "Done"
          ELSE IF outcome.error[1].message = "userSignTxCancel" THEN "Cancelled"
          ELSE "Failed",
   out |-> <<outcome>>, warned |-> <<>>]

\* a catch block that compares with the signal of another operation
TrezorSignTransactionCatchWrongSignal(caughtError, modifiedPayloadObject) ==
  IF caughtError.message = CANCEL_ACC_EXPORT
  THEN Settle(Rejected(Error("userSignTxCancel", <<>>, "")))
  ELSE Settle(Rejected(Error("userSignTxGenericError",
                             <<[payload |-> modifiedPayloadObject]>>,
                             caughtError.message)))

\* a catch block that issues the request again after a failure
TrezorSignTransactionCatchRetry(caughtError, modifiedPayloadObject) ==
  IF caughtError.message = CANCEL_TX_SIGN
  THEN Settle(Rejected(Error("userSignTxCancel", <<>>, "")))
  ELSE [pc |-> "send", out |-> <<>>, warned |-> <<>>]

\* catch block of Trezor signTransaction
TrezorSignTransactionCatch(caughtError, modifiedPayloadObject) ==
  IF caughtError.message = CANCEL_TX_SIGN
  THEN Settle(Rejected(Error("userSignTxCancel", <<>>, "")))
  ELSE Settle(Rejected(Error("userSignTxGenericError",
                             <<[payload |-> modifiedPayloadObject]>>,
                             caughtError.message)))

\* catch block of Trezor signMessage
TrezorSignMessageCatch(caughtError, message) ==
  IF caughtError.message = CANCEL_TX_SIGN
  THEN Settle(Rejected(Error("userSignTxCancel", <<>>, "")))
  ELSE Settle(Rejected(Error("userSignTxGenericError",
                             <<[message |-> message]>>,
                             caughtError.message)))

\* catch block of Trezor verifyMessage: warns and returns false
TrezorVerifyMessageCatch(caughtError) ==
  [Settle(Resolved(FALSE)) EXCEPT !.warned = <<"messageSignatureInvalid">>]

\* a catch block of open that compares with the signal of signTransaction
TrezorOpenCatchWrongSignal(caughtError, modifiedPayloadObject) ==
  IF caughtError.message = CANCEL_TX_SIGN
  THEN [Settle(Resolved(undefined)) EXCEPT !.warned = <<"userExportCancel">>]
  ELSE Settle(Rejected(Error("userExportGenericError",
                             <<[payload |-> modifiedPayloadObject]>>,
                             caughtError.message)))

\* catch block of Trezor open: a cancelled export is no error, the call
\* returns what warning() returns
TrezorOpenCatch(caughtError, modifiedPayloadObject) ==
  IF caughtError.message = CANCEL_ACC_EXPORT
  THEN [Settle(Resolved(undefined)) EXCEPT !.warned = <<"userExportCancel">>]
  ELSE Settle(Rejected(Error("userExportGenericError",
                             <<[payload |-> modifiedPayloadObject]>>,
                             caughtError.message)))

\* handleLedgerConnectionError(error, specificMessage) of purser-ledger/helpers
handleLedgerConnectionError(caughtError, specificMessage) ==
  IF caughtError.message = LEDGER_CANCEL
  THEN Settle(Rejected(Error("userSignTxCancel", <<>>, "")))
  ELSE Settle(Rejected(specificMessage))

\* catch block of Ledger signTransaction: the dump is the transaction object
LedgerSignTransactionCatch(caughtError, transactionObject) ==
  handleLedgerConnectionError(
    caughtError,
    Error("userSignTxGenericError", <<[request |-> transactionObject]>>,
          caughtError.message))

\* catch block of Ledger signMessage: the dump is the message to sign
LedgerSignMessageCatch(caughtError, toSign) ==
  handleLedgerConnectionError(
    caughtError,
    Error("userSignTxGenericError", <<[message |-> toSign]>>,
          caughtError.message))

\* a catch block that logs the failure and returns nothing
SoftwareSignTransactionCatchSwallows(caughtError, transaction) ==
  [Settle(Resolved(undefined)) EXCEPT !.warned = <<"cannotSign">>]

\* catch block of the software signTransaction: every failure is thrown on
SoftwareSignTransactionCatch(caughtError, transaction) ==
  Settle(Rejected(Error("cannotSign", <<[transaction |-> transaction]>>,
                        caughtError.message)))

\* the transactionObject that signTransaction copies out of its argument
TransactionObject(req) ==
  [chainId |-> req.chainId, gasPrice |-> req.gasPrice, gasLimit |-> req.gasLimit,
   nonce |-> req.nonce, value |-> req.value, inputData |-> req.inputData,
   to |-> req.to]

\* the catch block of the operation of call k, applied to error e
Catch(k, e) ==
  CASE k.backend = "trezor" /\ k.op = "signTransaction" ->
         TrezorSignTransactionCatch(e, k.payload[1])
    [] k.backend = "trezor" /\ k.op = "signMessage" ->
         TrezorSignMessageCatch(e, k.req.message)
    [] k.backend = "trezor" /\ k.op = "verifyMessage" ->
         TrezorVerifyMessageCatch(e)
    [] k.backend = "ledger" /\ k.op = "signTransaction" ->
         LedgerSignTransactionCatch(e, TransactionObject(k.req))
    [] k.backend = "ledger" /\ k.op = "signMessage" ->
         LedgerSignMessageCatch(e, ToSign(k.req))
    [] k.backend = "trezor" /\ k.op = "open" ->
         TrezorOpenCatch(e, k.payload[1])
    [] k.backend = "software" /\ k.op = "signTransaction" ->
         SoftwareSignTransactionCatch(e, k.payload)

\* error e thrown at the current step of call k: caught by the try block
\* around the step, or else the rejection of the promise
Throw(k, e) == IF InTry(k) THEN Catch(k, e) ELSE Settle(Rejected(e))

(***************************************************************************)
(* Payload translation.                                                    *)
(***************************************************************************)
\* multipleOfTwoHexValueNormalizer applied to a number: its hex digits,
\* padded to an even count
EvenHexOfNumber(n) == multipleOfTwoHexValueNormalizer(NumToHex(n))

TxFields ==
  {"nonce", "gasPrice", "gasLimit", "to", "value", "data", "v", "r", "s"}

\* getChainDefinition(chainId): the chain the transaction is bound to
getChainDefinition(chainId) == [chainId |-> chainId]

\* new EthereumTx({...}, chain) of hex strings: every given field goes
\* through its setter, the others are empty; chain is the chain definition
EthereumTx(data, chain) ==
  [f \in TxFields \cup {"chain"} |->
     IF f = "chain" THEN chain
     ELSE IF f \in DOMAIN data THEN SetField(f, toBuffer(data[f])) ELSE <<>>]

\* a seed whose v is empty like r and s
SeededSignatureWithoutChainId(chainId) ==
  [r |-> hexSequenceNormalizer(EvenHexOfNumber(SIGNATURE_R), TRUE),
   s |-> hexSequenceNormalizer(EvenHexOfNumber(SIGNATURE_S), TRUE),
   v |-> hexSequenceNormalizer(EvenHexOfNumber(SIGNATURE_R), TRUE)]

\* the r, s and v the unsigned transaction is seeded with
SeededSignature(chainId) ==
  [r |-> hexSequenceNormalizer(EvenHexOfNumber(SIGNATURE_R), TRUE),
   s |-> hexSequenceNormalizer(EvenHexOfNumber(SIGNATURE_S), TRUE),
   v |-> hexSequenceNormalizer(EvenHexOfNumber(chainId), TRUE)]

\* the unsigned transaction of Trezor signTransaction
TrezorUnsignedTransaction(req) ==
  LET seed == SeededSignature(req.chainId)
  IN  EthereumTx(
        [gasPrice |-> hexSequenceNormalizer(EvenHexOfNumber(req.gasPrice), TRUE),
         gasLimit |-> hexSequenceNormalizer(EvenHexOfNumber(req.gasPrice), TRUE),
         nonce |-> hexSequenceNormalizer(EvenHexOfNumber(req.nonce), TRUE),
         value |-> hexSequenceNormalizer(EvenHexOfNumber(req.value), TRUE),
         data |-> hexSequenceNormalizer(req.inputData[1], TRUE),
         r |-> seed.r, s |-> seed.s, v |-> seed.v],
        getChainDefinition(req.chainId))

\* a payload whose data keeps the 0x prefix
TrezorSignTransactionPayloadPrefixedData(template, req) ==
  ObjectAssign(
    ObjectAssign(
      template,
      [address_n |-> PathArray(derivationPathNormalizer(req.derivationPath)),
       gas_price |-> JsString(EvenHexOfNumber(req.gasPrice)),
       gas_limit |-> JsString(EvenHexOfNumber(req.gasLimit)),
       chain_id |-> JsNumber(req.chainId),
       nonce |-> JsString(EvenHexOfNumber(req.nonce)),
       value |-> JsString(EvenHexOfNumber(req.value)),
       data |-> JsString(hexSequenceNormalizer(req.inputData[1], TRUE))]),
    IF req.to # <<>>
    THEN [to |-> JsString(addressNormalizer(req.to[1], FALSE))]
    ELSE <<>>)

\* a payload that always has a `to`, empty when the request has none
TrezorSignTransactionPayloadAlwaysTo(template, req) ==
  ObjectAssign(
    template,
    [address_n |-> PathArray(derivationPathNormalizer(req.derivationPath)),
     gas_price |-> JsString(EvenHexOfNumber(req.gasPrice)),
     gas_limit |-> JsString(EvenHexOfNumber(req.gasLimit)),
     chain_id |-> JsNumber(req.chainId),
     nonce |-> JsString(EvenHexOfNumber(req.nonce)),
     value |-> JsString(EvenHexOfNumber(req.value)),
     data |-> JsString(hexSequenceNormalizer(req.inputData[1], FALSE)),
     to |-> JsString(IF req.to # <<>> THEN addressNormalizer(req.to[1], FALSE)
                     ELSE <<>>)])

\* the payload of Trezor signTransaction: a copy of the template with the
\* transaction details, and with `to` only when the request has one
TrezorSignTransactionPayload(template, req) ==
  ObjectAssign(
    ObjectAssign(
      template,
      [address_n |-> PathArray(derivationPathNormalizer(req.derivationPath)),
       gas_price |-> JsString(EvenHexOfNumber(req.gasPrice)),
       gas_limit |-> JsString(EvenHexOfNumber(req.gasLimit)),
       chain_id |-> JsNumber(req.chainId),
       nonce |-> JsString(EvenHexOfNumber(req.nonce)),
       value |-> JsString(EvenHexOfNumber(req.value)),
       data |-> JsString(hexSequenceNormalizer(req.inputData[1], FALSE))]),
    IF req.to # <<>>
    THEN [to |-> JsString(addressNormalizer(req.to[1], FALSE))]
    ELSE <<>>)

\* the unsigned transaction of Ledger signTransaction: `to` is given only
\* when the request has one
LedgerUnsignedTransaction(req) ==
  LET seed == SeededSignature(req.chainId)
      fields ==
        [gasPrice |-> hexSequenceNormalizer(EvenHexOfNumber(req.gasPrice), TRUE),
         gasLimit |-> hexSequenceNormalizer(EvenHexOfNumber(req.gasLimit), TRUE),
         nonce |-> hexSequenceNormalizer(EvenHexOfNumber(req.nonce), TRUE),
         value |-> hexSequenceNormalizer(EvenHexOfNumber(req.value), TRUE),
         data |-> hexSequenceNormalizer(req.inputData[1], TRUE),
         r |-> seed.r, s |-> seed.s, v |-> seed.v]
  IN  EthereumTx(
        IF req.to # <<>>
        THEN [f \in DOMAIN fields \cup {"to"} |->
                IF f = "to" THEN addressNormalizer(req.to[1], TRUE) ELSE fields[f]]
        ELSE fields,
        getChainDefinition(req.chainId))

\* the arguments of ledger.signTransaction
LedgerSignTransactionPayload(req, unsignedTransaction) ==
  [derivationPath |-> derivationPathNormalizer(req.derivationPath),
   rawTransaction |-> BufferToHex(Serialize(unsignedTransaction))]

\* the payload of Trezor signMessage
TrezorSignMessagePayload(template, req) ==
  ObjectAssign(
    template,
    [path |-> PathArray(derivationPathNormalizer(req.derivationPath)),
     message |-> MessageHex(ToSign(req))])

\* the arguments of ledger.signPersonalMessage
LedgerSignMessagePayload(req) ==
  [derivationPath |-> derivationPathNormalizer(req.derivationPath),
   message |-> MessageHex(ToSign(req))]

\* the payload of Trezor verifyMessage
TrezorVerifyMessagePayload(template, req) ==
  ObjectAssign(
    template,
    [address |-> addressNormalizer(req.key, FALSE),
     message |-> req.message,
     signature |-> hexSequenceNormalizer(req.signature, FALSE)])

\* the argument of verifyMessageSignature in Ledger verifyMessage
LedgerVerifyMessagePayload(req) ==
  [publicKey |-> hexSequenceNormalizer(req.key, TRUE),
   message |-> req.message,
   signature |-> hexSequenceNormalizer(req.signature, TRUE)]

\* CHAIN_IDS.HOMESTEAD, PATH.COIN_MAINNET and PATH.COIN_TESTNET of
\* purser-core/defaults
HOMESTEAD == 1
COIN_MAINNET == 60
COIN_TESTNET == 1

\* the index array of the root derivation path of open: m/44'/coinType'/0'/0
RootPathArray(chainId) ==
  LET coinType == IF chainId = HOMESTEAD THEN COIN_MAINNET ELSE COIN_TESTNET
  IN  <<<<44, TRUE>>, <<coinType, TRUE>>, <<0, TRUE>>, <<0, FALSE>>>>

\* the payload of Trezor open
TrezorOpenPayload(template, req) ==
  ObjectAssign(template, [path |-> RootPathArray(req.chainId)])

\* the transaction the software signTransaction hands to the callback: the
\* numbers as big numbers, the input data as `data`, and `to` when given
SoftwareTransaction(req) ==
  ObjectAssign(
    [gasPrice |-> req.gasPrice, gasLimit |-> req.gasLimit,
     chainId |-> req.chainId, nonce |-> req.nonce, value |-> req.value,
     data |-> hexSequenceNormalizer(req.inputData[1], TRUE)],
    IF req.to # <<>> THEN [to |-> addressNormalizer(req.to[1], TRUE)] ELSE <<>>)

\* the transaction object call k builds, if its operation builds one
BuiltTransaction(k) ==
  IF k.op # "signTransaction" \/ k.backend = "software" THEN <<>>
  ELSE IF k.backend = "trezor" THEN <<TrezorUnsignedTransaction(k.req)>>
  ELSE <<LedgerUnsignedTransaction(k.req)>>

\* what call k sends to its backend
BuiltPayload(k) ==
  CASE k.backend = "trezor" /\ k.op = "signTransaction" ->
         TrezorSignTransactionPayload(templates.PAYLOAD_SIGNTX, k.req)
    [] k.backend = "ledger" /\ k.op = "signTransaction" ->
         LedgerSignTransactionPayload(k.req, LedgerUnsignedTransaction(k.req))
    [] k.backend = "trezor" /\ k.op = "signMessage" ->
         TrezorSignMessagePayload(templates.PAYLOAD_SIGNMSG, k.req)
    [] k.backend = "ledger" /\ k.op = "signMessage" ->
         LedgerSignMessagePayload(k.req)
    [] k.backend = "trezor" /\ k.op = "verifyMessage" ->
         TrezorVerifyMessagePayload(templates.PAYLOAD_VERIFYMSG, k.req)
    [] k.backend = "ledger" /\ k.op = "verifyMessage" ->
         LedgerVerifyMessagePayload(k.req)
    [] k.backend = "trezor" /\ k.op = "open" ->
         TrezorOpenPayload(templates.PAYLOAD_XPUB, k.req)
    [] k.backend = "software" /\ k.op = "signTransaction" ->
         SoftwareTransaction(k.req)

(***************************************************************************)
(* The backends: what they may answer to a request.                        *)
(***************************************************************************)
\* the message of the error a backend fails with
BackendErrors(backend, op) ==
  IF backend = "software" THEN {DEVICE_ERROR}
  ELSE IF op = "verifyMessage" THEN {DEVICE_ERROR}
  ELSE IF op = "open" THEN {CANCEL_ACC_EXPORT, DEVICE_ERROR}
  ELSE IF backend = "trezor" THEN {CANCEL_TX_SIGN, DEVICE_ERROR}
  ELSE {LEDGER_CANCEL, DEVICE_ERROR}

\* the results of a backend; Ledger returns the v of a transaction as a
\* string of two hex digits, every other v is a number
BackendResults(backend, op, req) ==
  CASE backend = "software" ->
         {[kind |-> "result", signedTransaction |-> t] : t \in SignedTransactions}
    [] op = "signTransaction" ->
         {[kind |-> "result", r |-> r, s |-> s,
           v |-> IF backend = "ledger" THEN BufferToHex(<<v>>) ELSE v] :
            r \in RComponents, s \in SComponents,
            v \in RecoveryValues(req.chainId)}
    [] op = "signMessage" /\ backend = "ledger" ->
         {[kind |-> "result", r |-> r, s |-> s, v |-> v] :
            r \in RComponents, s \in SComponents, v \in {0, 1, 27, 28}}
    [] op = "signMessage" /\ backend = "trezor" ->
         {[kind |-> "result", signature |-> sig] :
            sig \in {<<>>} \cup {<<x>> : x \in Signatures}}
    [] op = "verifyMessage" ->
         {[kind |-> "result", success |-> b] : b \in BOOLEAN}
    [] op = "open" ->
         {[kind |-> "result", publicKey |-> "publicKey", chainCode |-> "chainCode"]}

(***************************************************************************)
(* Signature assembly.                                                     *)
(***************************************************************************)
\* Trezor signTransaction: r, s and v written back, then serialized
TrezorSignTransactionAssemble(unsignedTransaction, resp) ==
  LET tx == [unsignedTransaction EXCEPT
               !.r = SetField("r", BufferFromHex(hexSequenceNormalizer(resp.r, TRUE))),
               !.s = SetField("s", BufferFromHex(hexSequenceNormalizer(resp.s, TRUE))),
               !.v = SetField("v", BufferFromHex(
                        hexSequenceNormalizer(NumToHex(resp.v), TRUE)))]
  IN  [tx |-> <<tx>>,
       value |-> hexSequenceNormalizer(BufferToHex(Serialize(tx)), TRUE)]

\* Ledger signTransaction: r, s and v written back, then serialized
LedgerSignTransactionAssemble(unsignedTransaction, resp) ==
  LET tx == [unsignedTransaction EXCEPT
               !.r = SetField("r", BufferFromHex(hexSequenceNormalizer(resp.r, TRUE))),
               !.s = SetField("s", BufferFromHex(hexSequenceNormalizer(resp.s, TRUE))),
               !.v = SetField("v", BufferFromHex(hexSequenceNormalizer(resp.v, TRUE)))]
  IN  [tx |-> <<tx>>,
       value |-> hexSequenceNormalizer(BufferToHex(Serialize(tx)), TRUE)]

\* Ledger signMessage: r, s and the hex digits of v, concatenated
LedgerSignMessageAssemble(resp) ==
  hexSequenceNormalizer(resp.r \o resp.s \o NumToHex(resp.v), TRUE)

\* Trezor signMessage: the signature of the response, '' when it has none
TrezorSignMessageAssemble(resp) ==
  hexSequenceNormalizer(IF resp.signature = <<>> THEN <<>> ELSE resp.signature[1],
                        TRUE)

\* verifyMessage: the success flag of the Trezor response, or the result of
\* verifyMessageSignature
VerifyMessageReturn(resp) == resp.success

\* open: the wallet instance made of the public key and the chain code
TrezorOpenReturn(req, resp) ==
  [publicKey |-> resp.publicKey, chainCode |-> resp.chainCode,
   rootDerivationPath |-> RootPathArray(req.chainId), chainId |-> req.chainId]

\* a return of the callback's result as it came
SoftwareSignTransactionReturnRaw(signedTransaction) == signedTransaction

\* the software signTransaction returns the callback's result, normalized
SoftwareSignTransactionReturn(signedTransaction) ==
  hexSequenceNormalizer(signedTransaction, TRUE)

\* the transaction object and the value call k returns from response resp
Assembled(k, resp) ==
  CASE k.backend = "software" ->
         [tx |-> <<>>,
          value |-> SoftwareSignTransactionReturn(resp.signedTransaction)]
    [] k.backend = "trezor" /\ k.op = "signTransaction" ->
         TrezorSignTransactionAssemble(k.tx[1], resp)
    [] k.backend = "ledger" /\ k.op = "signTransaction" ->
         LedgerSignTransactionAssemble(k.tx[1], resp)
    [] k.backend = "ledger" /\ k.op = "signMessage" ->
         [tx |-> <<>>, value |-> LedgerSignMessageAssemble(resp)]
    [] k.backend = "trezor" /\ k.op = "signMessage" ->
         [tx |-> <<>>, value |-> TrezorSignMessageAssemble(resp)]
    [] k.op = "verifyMessage" ->
         [tx |-> <<>>, value |-> VerifyMessageReturn(resp)]
    [] k.op = "open" ->
         [tx |-> <<>>, value |-> TrezorOpenReturn(k.req, resp)]

(***************************************************************************)
(* Actions: one per step of a call.                                        *)
(***************************************************************************)
\* call k settled, or moved, as the handler result h says
Handled(k, h) ==
  [k EXCEPT !.pc = h.pc, !.out = h.out, !.warned = @ \o h.warned]

\* a caller invokes one of the static methods
Call(c) ==
  /\ calls[c].pc = "Idle"
  /\ \E b \in Backends, w \in BOOLEAN :
       \E op \in IF w THEN Ops ELSE Operations(b) :
         \E arg \in ArgumentsOf(w, op) :
           LET k == [IdleCall EXCEPT
                       !.backend = b, !.op = op, !.wallet = w, !.arg = arg,
                       !.req = IF w THEN WalletArgument(op, arg) ELSE arg]
           IN  calls' = [calls EXCEPT ![c] = [k EXCEPT !.pc = ProgramOf(k)[1]]]
  /\ UNCHANGED templates

\* one validator runs: it accepts, or throws its error
Validate(c, step) ==
  LET k == calls[c]
  IN  /\ k.pc = step
      /\ IF Accepts(k, step)
         THEN calls' = [calls EXCEPT ![c] =
                          [k EXCEPT !.validated = @ \cup {step},
                                    !.pc = NextStep(k)]]
         ELSE calls' = [calls EXCEPT ![c] =
                          Handled([k EXCEPT !.invalid = <<ValidationError(k, step)>>],
                                  Throw(k, ValidationError(k, step)))]
      /\ UNCHANGED templates

CheckArgument(c) == Validate(c, "checkArgument")

ValidateKey(c) == Validate(c, "validateKey")

ValidateFields(c) == Validate(c, "validateFields")

ValidatePath(c) == Validate(c, "validatePath")

\* userInputValidator of the wallet method
UserInput(c) == Validate(c, "userInput")

\* the wallet method assigns the wallet's value into the object of the
\* caller: Object.assign(transactionObject, { derivationPath })
AwaitPropertyAssignsIntoArgument(c) ==
  LET k == calls[c]
  IN  /\ k.pc = "awaitProperty"
      /\ calls' = [calls EXCEPT ![c] =
                     [k EXCEPT !.awaits = Append(@, "wallet property"),
                               !.arg = IF k.op = "verifyMessage"
                                       THEN [@ EXCEPT !.key = k.req.key]
                                       ELSE [@ EXCEPT !.derivationPath =
                                                        k.req.derivationPath],
                               !.pc = NextStep(k)]]
      /\ UNCHANGED templates

\* the wallet method awaits this.derivationPath (sign, signMessage) or
\* this.publicKey (Ledger verifyMessage) and calls the static method
AwaitProperty(c) ==
  LET k == calls[c]
  IN  /\ k.pc = "awaitProperty"
      /\ calls' = [calls EXCEPT ![c] =
                     [k EXCEPT !.awaits = Append(@, "wallet property"),
                               !.pc = NextStep(k)]]
      /\ UNCHANGED templates

\* the connection is requested and awaited twice
ConnectTwice(c) ==
  LET k == calls[c]
  IN  /\ k.pc = "connect"
      /\ calls' = [calls EXCEPT ![c] =
                     [k EXCEPT !.connects = @ + 2,
                               !.awaits = @ \o <<"ledgerConnection",
                                                  "ledgerConnection">>,
                               !.pc = NextStep(k)]]
      /\ UNCHANGED templates

\* await ledgerConnection(): the connection is requested
Connect(c) ==
  LET k == calls[c]
  IN  /\ k.pc = "connect"
      /\ calls' = [calls EXCEPT ![c] =
                     [k EXCEPT !.connects = @ + 1,
                               !.awaits = Append(@, "ledgerConnection"),
                               !.pc = NextStep(k)]]
      /\ UNCHANGED templates

\* the device connects
ConnectionOpens(c) ==
  LET k == calls[c]
  IN  /\ k.pc = "awaitConnection"
      /\ calls' = [calls EXCEPT ![c] = [k EXCEPT !.pc = NextStep(k)]]
      /\ UNCHANGED templates

\* the connection fails
ConnectionFails(c) ==
  LET k == calls[c]
  IN  /\ k.pc = "awaitConnection"
      /\ calls' = [calls EXCEPT ![c] =
                     Handled(k, Throw(k, Error(DEVICE_ERROR, <<>>, "")))]
      /\ UNCHANGED templates

\* the payload of Trezor signTransaction is assigned into the template
\* itself: Object.assign(PAYLOAD_SIGNTX, {...})
BuildIntoTemplate(c) ==
  LET k == calls[c]
  IN  /\ k.pc = "build"
      /\ calls' = [calls EXCEPT ![c] =
                     [k EXCEPT !.tx = BuiltTransaction(k),
                               !.payload = <<BuiltPayload(k)>>,
                               !.pc = NextStep(k)]]
      /\ templates' = IF k.backend = "trezor" /\ k.op = "signTransaction"
                      THEN [templates EXCEPT !.PAYLOAD_SIGNTX = BuiltPayload(k)]
                      ELSE templates

\* the unsigned transaction and the payload are built
Build(c) ==
  LET k == calls[c]
  IN  /\ k.pc = "build"
      /\ calls' = [calls EXCEPT ![c] =
                     [k EXCEPT !.tx = BuiltTransaction(k),
                               !.payload = <<BuiltPayload(k)>>,
                               !.pc = NextStep(k)]]
      /\ UNCHANGED templates

\* the signing or verification request is issued to the backend
Send(c) ==
  LET k == calls[c]
  IN  /\ k.pc = "send"
      /\ calls' = [calls EXCEPT ![c] =
                     [k EXCEPT !.requests = @ + 1,
                               !.awaits = Append(@, "request"),
                               !.pc = NextStep(k)]]
      /\ UNCHANGED templates

\* the backend answers with a result
BackendReturns(c) ==
  LET k == calls[c]
  IN  /\ k.pc = "await"
      /\ \E resp \in BackendResults(k.backend, k.op, k.req) :
           calls' = [calls EXCEPT ![c] =
                       [k EXCEPT !.resp = <<resp>>, !.pc = NextStep(k)]]
      /\ UNCHANGED templates

\* the backend fails, or the call gives up on its own after a timeout
BackendFailsOrTimesOut(c) ==
  LET k == calls[c]
  IN  /\ k.pc = "await"
      /\ \/ \E m \in BackendErrors(k.backend, k.op) :
              calls' = [calls EXCEPT ![c] =
                          Handled([k EXCEPT !.resp = <<[kind |-> "error", message |-> m]>>],
                                  Throw(k, Error(m, <<>>, "")))]
         \/ calls' = [calls EXCEPT ![c] =
                        Handled(k, Throw(k, Error("timeout", <<>>, "")))]
      /\ UNCHANGED templates

\* the backend fails: with its cancel signal, or with another error
BackendFails(c) ==
  LET k == calls[c]
  IN  /\ k.pc = "await"
      /\ \E m \in BackendErrors(k.backend, k.op) :
           calls' = [calls EXCEPT ![c] =
                       Handled([k EXCEPT !.resp = <<[kind |-> "error", message |-> m]>>],
                               Throw(k, Error(m, <<>>, "")))]
      /\ UNCHANGED templates

\* the result is assembled and returned
Assemble(c) ==
  LET k == calls[c]
      a == Assembled(k, k.resp[1])
  IN  /\ k.pc = "assemble"
      /\ calls' = [calls EXCEPT ![c] =
                     Handled([k EXCEPT !.tx = a.tx], Settle(Resolved(a.value)))]
      /\ UNCHANGED templates

\* the payload templates as the module defines them
Templates ==
  [PAYLOAD_SIGNTX |-> PAYLOAD_SIGNTX, PAYLOAD_SIGNMSG |-> PAYLOAD_SIGNMSG,
   PAYLOAD_VERIFYMSG |-> PAYLOAD_VERIFYMSG, PAYLOAD_XPUB |-> PAYLOAD_XPUB]

Init ==
  /\ calls = [c \in Caller |-> IdleCall]
  /\ templates = Templates

Step(c) ==
  \/ Call(c)
  \/ UserInput(c)
  \/ AwaitProperty(c)
  \/ CheckArgument(c)
  \/ ValidateKey(c)
  \/ ValidateFields(c)
  \/ ValidatePath(c)
  \/ Connect(c)
  \/ ConnectionOpens(c)
  \/ ConnectionFails(c)
  \/ Build(c)
  \/ Send(c)
  \/ BackendReturns(c)
  \/ BackendFails(c)
  \/ Assemble(c)

Next == \E c \in Caller : Step(c)

Spec == Init /\ [][Next]_vars

(***************************************************************************)
(* Two callers that sign transactions at the same time: their calls        *)
(* interleave at every step.                                               *)
(***************************************************************************)
\* the requests of the concurrent callers: valid, with different nonces,
\* with and without a destination
ConcurrentRequests ==
  {r \in TransactionRequests :
     /\ r.fieldsValid
     /\ r.derivationPath = ValidPath
     /\ r.chainId = 1 /\ r.gasPrice = 1 /\ r.gasLimit = MaxGas
     /\ r.inputData = <<<<0, X, 6, 0>>>>}

ConcurrentInit ==
  /\ calls = [c \in ConcurrentCallers |-> IdleCall]
  /\ templates = Templates

\* a caller invokes signTransaction
ConcurrentCall(c) ==
  /\ calls[c].pc = "Idle"
  /\ \E b \in Backends, req \in ConcurrentRequests :
       calls' = [calls EXCEPT ![c] =
                   [IdleCall EXCEPT !.backend = b, !.op = "signTransaction",
                                    !.arg = req, !.req = req,
                                    !.pc = Program(b, "signTransaction")[1]]]
  /\ UNCHANGED templates

ConcurrentStep(c) ==
  \/ ConcurrentCall(c)
  \/ ValidateFields(c)
  \/ ValidatePath(c)
  \/ Connect(c)
  \/ ConnectionOpens(c)
  \/ ConnectionFails(c)
  \/ Build(c)
  \/ Send(c)
  \/ BackendReturns(c)
  \/ BackendFails(c)
  \/ Assemble(c)

ConcurrentNext == \E c \in ConcurrentCallers : ConcurrentStep(c)

ConcurrentSpec == ConcurrentInit /\ [][ConcurrentNext]_vars

(***************************************************************************)
(* The software wallet: signTransaction hands the transaction to the       *)
(* callback it was called with.                                            *)
(***************************************************************************)
SoftwareCall(c) ==
  /\ calls[c].pc = "Idle"
  /\ \E req \in SoftwareRequests :
       calls' = [calls EXCEPT ![c] =
                   [IdleCall EXCEPT !.backend = "software",
                                    !.op = "signTransaction",
                                    !.arg = req, !.req = req,
                                    !.pc = Program("software", "signTransaction")[1]]]
  /\ UNCHANGED templates

\* await callback(transaction): calling what is no function throws
InvokeCallback(c) ==
  LET k == calls[c]
  IN  /\ k.pc = "invoke"
      /\ IF k.req.callback
         THEN calls' = [calls EXCEPT ![c] =
                          [k EXCEPT !.requests = @ + 1,
                                    !.awaits = Append(@, "request"),
                                    !.pc = NextStep(k)]]
         ELSE calls' = [calls EXCEPT ![c] =
                          Handled(k, Throw(k, Error("callback is not a function",
                                                    <<>>, "")))]
      /\ UNCHANGED templates

SoftwareStep(c) ==
  \/ SoftwareCall(c)
  \/ ValidateFields(c)
  \/ Build(c)
  \/ InvokeCallback(c)
  \/ BackendReturns(c)
  \/ BackendFails(c)
  \/ Assemble(c)

SoftwareNext == \E c \in Caller : SoftwareStep(c)

SoftwareSpec == Init /\ [][SoftwareNext]_vars

(***************************************************************************)
(* Properties.                                                             *)
(***************************************************************************)
\* the integer a Buffer denotes (big-endian)
BufferToNum(b) == HexToNum(BufferToHex(b))

Range(seq) == {seq[i] : i \in 1..Len(seq)}

\* the validators of the program of call k
ValidatorsOf(k) == Range(ProgramOf(k)) \cap ValidationSteps

\* the backend of call k has failed with message m
BackendFailedWith(k, m) ==
  k.resp # <<>> /\ k.resp[1].kind = "error" /\ k.resp[1].message = m

BackendFailed(k) == k.resp # <<>> /\ k.resp[1].kind = "error"

\* the state of the call in the state machine of a sign or verify call
Phase(k) ==
  CASE k.pc \in ValidationSteps \cup {"awaitProperty", "connect", "build"} ->
         "Validating"
    [] k.pc = "send" -> "PayloadBuilt"
    [] k.pc \in {"awaitConnection", "await"} -> "AwaitingBackend"
    [] k.pc = "assemble" -> "Assembling"
    [] OTHER -> k.pc

Rank(phase) ==
  CASE phase = "Idle" -> 0
    [] phase = "Validating" -> 1
    [] phase = "PayloadBuilt" -> 2
    [] phase = "AwaitingBackend" -> 3
    [] phase = "Assembling" -> 4
    [] phase \in Terminal -> 5

\* C1: the v of the serialized transaction signTransaction returns for chain
\* id c is 2c+35 or 2c+36, whatever form of v the backend returned
C1_Eip155RecoveryValue ==
  \A c \in CallIds :
    LET k == calls[c]
    IN  (k.op = "signTransaction" /\ k.pc = "Done")
          => BufferToNum(k.tx[1].v) \in {2 * k.req.chainId + 35,
                                         2 * k.req.chainId + 36}

\* C2: when the Trezor backend fails with its cancel signal during
\* signTransaction or signMessage, the call rejects with exactly the fixed
\* cancellation message: no payload dump, no cause, not the generic error
C2_TrezorCancelIsCancelled ==
  \A c \in CallIds :
    LET k == calls[c]
    IN  (k.backend = "trezor" /\ k.op \in SignOps /\ k.pc \in Terminal
           /\ BackendFailedWith(k, CANCEL_TX_SIGN))
          => /\ k.out[1] = Rejected(Error("userSignTxCancel", <<>>, ""))
             /\ k.pc = "Cancelled"

C2_Witness ==
  \E c \in CallIds :
    /\ calls[c].backend = "trezor"
    /\ calls[c].op = "signTransaction"
    /\ BackendFailedWith(calls[c], CANCEL_TX_SIGN)
    /\ calls[c].pc = "Cancelled"

\* C3: verifyMessage never rejects: every call ends resolved with a boolean,
\* and with false whenever a validator or the backend failed
C3_VerifyMessageNeverThrows ==
  \A c \in CallIds :
    LET k == calls[c]
    IN  (k.op = "verifyMessage" /\ k.pc \in Terminal)
          => /\ k.out[1].status = "resolved"
             /\ k.out[1].value \in BOOLEAN
             /\ (k.invalid # <<>> \/ BackendFailed(k)) => k.out[1].value = FALSE

\* C4: in signTransaction and signMessage no connection and no signing
\* request is made before every validator of the operation has accepted
C4_ValidationBeforeBackend ==
  \A c \in CallIds :
    LET k == calls[c]
    IN  (k.op \in SignOps /\ (k.connects > 0 \/ k.requests > 0))
          => ValidatorsOf(k) \subseteq k.validated

\* C5: when a validator of signTransaction or signMessage throws, the call
\* rejects with that validation error itself
C5_ValidationErrorSurfaced ==
  \A c \in CallIds :
    LET k == calls[c]
    IN  (k.op \in SignOps /\ k.pc \in Terminal /\ k.invalid # <<>>)
          => k.out[1] = Rejected(k.invalid[1])

\* C6: the r and s of the serialized transaction are the r and s the backend
\* returned, and are not empty
C6_SignatureWrittenBack ==
  \A c \in CallIds :
    LET k == calls[c]
    IN  (k.op = "signTransaction" /\ k.pc = "Done")
          => /\ k.tx[1].r = StripZeros(BufferFromHex(k.resp[1].r))
             /\ k.tx[1].s = StripZeros(BufferFromHex(k.resp[1].s))
             /\ k.tx[1].r # <<>>
             /\ k.tx[1].s # <<>>

\* a 0x-prefixed string of an even number of hex digits
IsEvenPrefixedHex(h) ==
  /\ HasPrefix(h)
  /\ Len(h) % 2 = 0
  /\ \A i \in 3..Len(h) : h[i] \in HexDigits

\* C7: every string signTransaction or signMessage returns starts with 0x
\* and has an even number of hex digits after it
C7_EvenPrefixedOutput ==
  \A c \in CallIds :
    LET k == calls[c]
    IN  (k.op \in SignOps /\ k.pc = "Done") => IsEvenPrefixedHex(k.out[1].value)

\* C8: Ledger signMessage returns 0x, r, s and v, with v as one byte (two
\* hex digits)
C8_LedgerMessageSignatureLayout ==
  \A c \in CallIds :
    LET k == calls[c]
    IN  (k.backend = "ledger" /\ k.op = "signMessage" /\ k.pc = "Done")
          => k.out[1].value
               = Prefix0x \o k.resp[1].r \o k.resp[1].s \o BufferToHex(<<k.resp[1].v>>)

C10_StateOrder ==
  [][\A c \in CallIds :
       /\ Rank(Phase(calls'[c])) >= Rank(Phase(calls[c]))
       /\ calls[c].pc \in Terminal => calls'[c] = calls[c]]_vars

\* the Trezor signTransaction calls that have built their payload
TrezorPayloadBuilt(k) ==
  k.backend = "trezor" /\ k.op = "signTransaction" /\ k.payload # <<>>

\* the awaits of call k on a party outside the wallet: the device connection
\* and the signing or verification request
ExternalAwaits(k) == SelectSeq(k.awaits, LAMBDA a : a # "wallet property")

\* every await of a call, in the order of its program
ExpectedAwaits(k) ==
  (IF k.wallet /\ "awaitProperty" \in Range(ProgramOf(k))
   THEN <<"wallet property">> ELSE <<>>)
  \o (IF k.backend = "ledger" /\ k.op # "verifyMessage"
      THEN <<"ledgerConnection">> ELSE <<>>)
  \o <<"request">>

IsPrefix(s, t) == Len(s) <= Len(t) /\ s = SubSeq(t, 1, Len(s))

\* C11 as stated: a sign call waits on an external party at one point only,
\* the signing request; nothing is awaited from outside before it
C11_OneSuspensionPoint ==
  \A c \in CallIds :
    LET k == calls[c]
    IN  k.op \in SignOps => ExternalAwaits(k) \in {<<>>, <<"request">>}

\* C11 amended: a Trezor sign call waits on the backend once, at the signing
\* request; a Ledger sign call waits twice, at the device connection and
\* then at the signing request; a wallet method awaits its own derivation
\* path before that; there is no other await
C11_SuspensionPoints ==
  \A c \in CallIds :
    LET k == calls[c]
    IN  k.op \in SignOps
          => /\ IsPrefix(k.awaits, ExpectedAwaits(k))
             /\ k.requests > 0 => k.awaits = ExpectedAwaits(k)
             /\ k.backend = "trezor" => ExternalAwaits(k) \in {<<>>, <<"request">>}

C11_Witness ==
  \E c \in CallIds :
    /\ calls[c].backend = "ledger"
    /\ calls[c].op = "signTransaction"
    /\ calls[c].wallet
    /\ calls[c].pc = "await"
    /\ calls[c].awaits = <<"wallet property", "ledgerConnection", "request">>

\* C12: a call that awaits the answer to its request leaves that state only
\* when the backend answers, with a result, a cancellation or an error
C12_PendingLeavesOnResponse ==
  [][\A c \in CallIds :
       (calls[c].pc = "await" /\ calls'[c] # calls[c])
         => /\ calls[c].resp = <<>>
            /\ calls'[c].resp # <<>>
            /\ calls'[c].resp[1].kind \in {"result", "error"}]_vars

C12_Witness ==
  \E c \in CallIds :
    /\ calls[c].backend = "ledger"
    /\ calls[c].op = "signMessage"
    /\ calls[c].pc = "Cancelled"
    /\ BackendFailedWith(calls[c], LEDGER_CANCEL)

\* C13: with two signTransaction calls interleaved, the payload, the
\* unsigned transaction and the result of each call come from its own
\* request and its own response, and the shared templates stay as they are
C13_CallsDoNotInterfere ==
  /\ templates = Templates
  /\ \A c \in CallIds :
       LET k == calls[c]
       IN  /\ TrezorPayloadBuilt(k)
                => /\ HexToNum(k.payload[1].nonce.value) = k.req.nonce
                   /\ ("to" \in DOMAIN k.payload[1]) <=> (k.req.to # <<>>)
           /\ (k.op = "signTransaction" /\ k.tx # <<>>)
                => /\ BufferToNum(k.tx[1].nonce) = k.req.nonce
                   /\ k.backend = "ledger" => ((k.tx[1].to # <<>>) <=> (k.req.to # <<>>))
           /\ (k.backend = "ledger" /\ k.op = "signTransaction" /\ k.pc = "await")
                => BufferFromHex(k.payload[1].rawTransaction) = Serialize(k.tx[1])
           /\ (k.op = "signTransaction" /\ k.pc = "Done")
                => /\ k.resp[1].kind = "result"
                   /\ k.out[1].value = Prefix0x \o BufferToHex(Serialize(k.tx[1]))

\* one call has finished while the other, with another request, is pending
C13_Witness ==
  /\ 2 \in CallIds
  /\ TrezorPayloadBuilt(calls[1])
  /\ calls[1].pc = "await"
  /\ calls[1].req.to # <<>>
  /\ TrezorPayloadBuilt(calls[2])
  /\ calls[2].pc = "Done"
  /\ calls[2].req.to = <<>>
  /\ calls[2].req.nonce # calls[1].req.nonce

\* the last three elements of a sequence
Tail3(s) == SubSeq(s, Len(s) - 2, Len(s))

\* C14: when the signing request is issued the unsigned transaction has
\* empty r and s and the chain id as v; the raw transaction sent to the
\* Ledger is the serialization of that transaction, ending in v, r, s
C14_SeededPlaceholders ==
  \A c \in CallIds :
    LET k == calls[c]
    IN  (k.op = "signTransaction" /\ k.pc = "await")
          => /\ k.tx[1].r = <<>>
             /\ k.tx[1].s = <<>>
             /\ k.tx[1].v = <<k.req.chainId>>
             /\ k.backend = "ledger"
                  => LET raw == BufferFromHex(k.payload[1].rawTransaction)
                     IN  /\ raw = Serialize(k.tx[1])
                         /\ Tail3(raw) = <<k.req.chainId, 128, 128>>

C14_Witness ==
  \E c \in CallIds :
    /\ calls[c].backend = "ledger"
    /\ calls[c].op = "signTransaction"
    /\ calls[c].pc = "await"
    /\ calls[c].req.chainId = MaxChainId
    /\ calls[c].tx[1].v = <<MaxChainId>>

\* a string of hex digits without the 0x prefix
IsUnprefixedHexString(x) ==
  /\ x.type = "string"
  /\ \A i \in 1..Len(x.value) : x.value[i] \in HexDigits

\* the index array of the derivation path m/44'/60'/0'/0/0
ValidPathIndices ==
  <<<<44, TRUE>>, <<60, TRUE>>, <<0, TRUE>>, <<0, FALSE>>, <<0, FALSE>>>>

\* C15 as stated: address_n is the index array of the path, and gas_price,
\* gas_limit, chain_id, nonce, value and data are unprefixed hex strings
C15_PayloadAllHex ==
  \A c \in CallIds :
    LET k == calls[c]
    IN  TrezorPayloadBuilt(k)
          => /\ k.payload[1].address_n = ValidPathIndices
             /\ \A f \in {"gas_price", "gas_limit", "chain_id", "nonce", "value",
                          "data"} : IsUnprefixedHexString(k.payload[1][f])

\* C15 amended: gas_price, gas_limit, nonce, value and data are unprefixed
\* hex strings; chain_id is the chain id of the request, as a number
C15_PayloadShape ==
  \A c \in CallIds :
    LET k == calls[c]
    IN  TrezorPayloadBuilt(k)
          => /\ k.payload[1].address_n = ValidPathIndices
             /\ \A f \in {"gas_price", "gas_limit", "nonce", "value", "data"} :
                  IsUnprefixedHexString(k.payload[1][f])
             /\ k.payload[1].chain_id = JsNumber(k.req.chainId)

C15_Witness ==
  \E c \in CallIds :
    /\ TrezorPayloadBuilt(calls[c])
    /\ calls[c].requests = 1
    /\ calls[c].req.inputData = <<<<0, X, 6, 0>>>>
    /\ calls[c].payload[1].data = JsString(<<6, 0>>)

\* C16: the Trezor payload and the Ledger unsigned transaction have a `to`
\* exactly when the request has one; in the payload it is the address
\* without the 0x prefix
C16_ToOnlyWhenGiven ==
  \A c \in CallIds :
    LET k == calls[c]
    IN  /\ TrezorPayloadBuilt(k)
             => /\ ("to" \in DOMAIN k.payload[1]) <=> (k.req.to # <<>>)
                /\ k.req.to # <<>>
                     => /\ k.payload[1].to.type = "string"
                        /\ ~HasPrefix(k.payload[1].to.value)
                        /\ Prefix0x \o k.payload[1].to.value = k.req.to[1]
        /\ (k.backend = "ledger" /\ k.op = "signTransaction" /\ k.tx # <<>>)
             => /\ (k.tx[1].to # <<>>) <=> (k.req.to # <<>>)
                /\ k.req.to # <<>>
                     => Prefix0x \o BufferToHex(k.tx[1].to) = k.req.to[1]

C16_Witness ==
  \E c \in CallIds :
    /\ TrezorPayloadBuilt(calls[c])
    /\ calls[c].req.to = <<>>
    /\ "to" \notin DOMAIN calls[c].payload[1]
    /\ calls[c].requests = 1

\* C17: a transaction without `to` and with empty or missing inputData is
\* rejected by wallet.sign before the device is connected or asked to sign
C17_ContractNeedsInputData ==
  \A c \in CallIds :
    LET k == calls[c]
    IN  (k.wallet /\ k.op = "signTransaction" /\ k.arg.to = <<>>
           /\ k.arg.inputData \in {<<>>, <<Prefix0x>>})
          => /\ k.connects = 0
             /\ k.requests = 0
             /\ k.pc \in Terminal => k.out[1].status = "rejected"

\* C18: signMessage reaches the backend only with exactly one of message and
\* messageData; with both or neither the call rejects, and the device is
\* neither connected nor asked to sign
C18_ExactlyOneOfMessageAndData ==
  \A c \in CallIds :
    LET k == calls[c]
        one == (k.arg.message = <<>>) # (k.arg.messageData = <<>>)
    IN  k.op = "signMessage"
          => /\ (k.connects > 0 \/ k.requests > 0) => one
             /\ (k.pc \in Terminal /\ ~one)
                  => k.out[1].status = "rejected" /\ k.resp = <<>>

C18_Witness ==
  \E c \in CallIds :
    /\ calls[c].op = "signMessage"
    /\ calls[c].arg.isObject
    /\ calls[c].arg.message # <<>>
    /\ calls[c].arg.messageData # <<>>
    /\ calls[c].pc = "Failed"
    /\ calls[c].invalid # <<>>

\* C19: when the backend fails with another error than the cancel signal,
\* the error of signTransaction or signMessage carries the message of that
\* error and a dump of the payload that was sent
C19_GenericErrorDumpsPayload ==
  \A c \in CallIds :
    LET k == calls[c]
    IN  (k.op \in SignOps /\ k.pc \in Terminal /\ BackendFailedWith(k, DEVICE_ERROR))
          => /\ k.out[1].status = "rejected"
             /\ k.out[1].error[1].cause = DEVICE_ERROR
             /\ k.out[1].error[1].context = <<[payload |-> k.payload[1]]>>

C21_SoftwareSignTransaction ==
  \A c \in CallIds :
    LET k == calls[c]
    IN  k.backend = "software"
          => /\ k.requests > 0
                  => /\ "validateFields" \in k.validated
                     /\ \A f \in {"chainId", "gasLimit", "gasPrice", "nonce", "value"} :
                          k.payload[1][f] = k.arg[f]
                     /\ k.payload[1].data = k.arg.inputData[1]
                     /\ ("to" \in DOMAIN k.payload[1]) <=> (k.arg.to # <<>>)
                     /\ k.arg.to # <<>> => k.payload[1].to = k.arg.to[1]
             /\ k.pc = "Done"
                  => /\ k.requests = 1
                     /\ k.out[1].status = "resolved"
                     /\ HasPrefix(k.out[1].value)
                     /\ StripPrefix(k.out[1].value)
                          = StripPrefix(k.resp[1].signedTransaction)

C21_Witness ==
  \E c \in CallIds :
    /\ calls[c].backend = "software"
    /\ calls[c].pc = "Done"
    /\ calls[c].arg.to # <<>>
    /\ calls[c].arg.inputData = <<<<0, X, 6, 0>>>>
    /\ ~HasPrefix(calls[c].resp[1].signedTransaction)

\* C22: the software signTransaction rejects whenever the validator or the
\* callback throws, and when it is called with no argument; it resolves only
\* with the result of a callback that returned
C22_SoftwareSignTransactionRejects ==
  \A c \in CallIds :
    LET k == calls[c]
    IN  (k.backend = "software" /\ k.pc \in Terminal)
          => /\ (k.invalid # <<>> \/ BackendFailed(k) \/ ~k.arg.given
                   \/ ~k.arg.callback)
                  => k.out[1].status = "rejected"
             /\ k.out[1].status = "resolved"
                  => k.resp # <<>> /\ k.resp[1].kind = "result"

C22_Witness ==
  \E c \in CallIds :
    /\ calls[c].backend = "software"
    /\ ~calls[c].arg.given
    /\ calls[c].arg.fieldsValid
    /\ calls[c].pc = "Failed"
    /\ calls[c].out[1].status = "rejected"

\* the v of a backend response, as a number: Ledger returns it as hex digits
BackendV(k) ==
  IF k.backend = "ledger" THEN HexToNum(k.resp[1].v) ELSE k.resp[1].v

\* C23: when the backend returns a v that is already adjusted for the chain
\* id c of the request (2c+35 or 2c+36), the v of the serialized transaction
\* is that v, not adjusted again
C23_AdjustedVKept ==
  \A c \in CallIds :
    LET k == calls[c]
    IN  (k.op = "signTransaction" /\ k.backend \in Backends /\ k.pc = "Done"
           /\ BackendV(k) \in {2 * k.req.chainId + 35, 2 * k.req.chainId + 36})
          => BufferToNum(k.tx[1].v) = BackendV(k)

\* C24: in Trezor signTransaction the gasLimit of the serialized transaction
\* is the gasLimit of the request and the gas_limit sent to the device
C24_TrezorGasLimit ==
  \A c \in CallIds :
    LET k == calls[c]
    IN  (TrezorPayloadBuilt(k) /\ k.pc = "Done")
          => /\ BufferToNum(k.tx[1].gasLimit) = k.req.gasLimit
             /\ BufferToNum(k.tx[1].gasLimit)
                  = HexToNum(k.payload[1].gas_limit.value)

\* C25: in Trezor signTransaction, when the request has a destination, the
\* serialized transaction carries it, the address sent to the device as `to`
C25_TrezorDestination ==
  \A c \in CallIds :
    LET k == calls[c]
    IN  (TrezorPayloadBuilt(k) /\ k.pc = "Done" /\ k.req.to # <<>>)
          => /\ Prefix0x \o BufferToHex(k.tx[1].to) = k.req.to[1]
             /\ BufferToHex(k.tx[1].to) = k.payload[1].to.value

\* the numeric fields of a request, and their names in the Trezor payload
NumericFields == {"gasPrice", "gasLimit", "value", "nonce"}

PayloadName(f) ==
  CASE f = "gasPrice" -> "gas_price"
    [] f = "gasLimit" -> "gas_limit"
    [] OTHER -> f

\* C26: for gasPrice, gasLimit, value and nonce, the field of the unsigned
\* transaction and the hex string of the Trezor payload denote the integer of
\* the validated request, and the hex string has an even number of digits
C26_NumericFieldsKept ==
  \A c \in CallIds :
    LET k == calls[c]
    IN  (k.op = "signTransaction" /\ k.backend \in Backends /\ k.tx # <<>>)
          => \A f \in NumericFields :
               /\ BufferToNum(k.tx[1][f]) = k.req[f]
               /\ k.backend = "trezor"
                    => /\ Len(k.payload[1][PayloadName(f)].value) % 2 = 0
                       /\ HexToNum(k.payload[1][PayloadName(f)].value) = k.req[f]

\* the derivation path in what call k sends to its backend
PayloadPath(k) ==
  IF k.backend = "ledger" THEN k.payload[1].derivationPath
  ELSE IF k.op = "signTransaction" THEN k.payload[1].address_n
  ELSE k.payload[1].path

\* C27: wallet.sign and wallet.signMessage sign with the derivation path of
\* the wallet: the static method gets that path whatever path the caller's
\* object has, it is the path sent to the backend, and the caller's path is
\* not even validated
C27_WalletPathOnly ==
  \A c \in CallIds :
    LET k == calls[c]
    IN  (k.wallet /\ k.op \in SignOps)
          => /\ k.req.derivationPath = WalletDerivationPath
             /\ k.invalid # <<>> => k.invalid[1] # ValidationError(k, "validatePath")
             /\ k.payload # <<>>
                  => PayloadPath(k)
                       = IF k.backend = "ledger" THEN WalletDerivationPath
                         ELSE PathArray(WalletDerivationPath)

C27_Witness ==
  \E c \in CallIds :
    /\ calls[c].wallet
    /\ calls[c].backend = "ledger"
    /\ calls[c].op = "signTransaction"
    /\ calls[c].arg.derivationPath # WalletDerivationPath
    /\ calls[c].requests = 1
    /\ calls[c].payload[1].derivationPath = WalletDerivationPath

\* the chain id wallet.sign signs for: that of the caller's object, or that
\* of the wallet when the object has none
ExpectedChainId(k) ==
  IF k.arg.chainId = <<>> THEN WalletChainId ELSE k.arg.chainId[1]

\* C28: wallet.sign uses the chain id of the request, or of the wallet when
\* the request has none, and that one chain id is the v placeholder, the
\* chain definition of the transaction and the chain_id of the Trezor payload
C28_OneChainId ==
  \A c \in CallIds :
    LET k == calls[c]
    IN  (k.wallet /\ k.op = "signTransaction")
          => /\ k.req.chainId = ExpectedChainId(k)
             /\ k.tx # <<>>
                  => /\ k.tx[1].chain = getChainDefinition(ExpectedChainId(k))
                     /\ k.pc \in {"send", "await"}
                          => k.tx[1].v = <<ExpectedChainId(k)>>
             /\ TrezorPayloadBuilt(k)
                  => k.payload[1].chain_id = JsNumber(ExpectedChainId(k))

C28_Witness ==
  \E c \in CallIds :
    /\ calls[c].wallet
    /\ TrezorPayloadBuilt(calls[c])
    /\ calls[c].arg.chainId = <<>>
    /\ calls[c].pc = "await"
    /\ calls[c].payload[1].chain_id = JsNumber(WalletChainId)
    /\ calls[c].tx[1].v = <<WalletChainId>>

\* C29: no step of sign, signMessage or verifyMessage changes the object the
\* caller passed or the payload templates, however the call ends
C29_ArgumentAndTemplatesKept ==
  [][/\ templates' = templates
     /\ \A c \in CallIds :
          (calls[c].pc # "Idle" /\ calls[c].op \in Ops)
            => calls'[c].arg = calls[c].arg]_vars

C29_Witness ==
  /\ templates = Templates
  /\ \E c \in CallIds :
       /\ calls[c].wallet
       /\ calls[c].backend = "trezor"
       /\ calls[c].op = "signTransaction"
       /\ calls[c].pc = "Cancelled"
       /\ calls[c].arg.derivationPath # calls[c].req.derivationPath
       /\ calls[c].arg.chainId = <<>>

\* C30: Trezor signMessage resolves only with the signature of the backend:
\* a response without a signature gives no successful result
C30_TrezorSignMessageNeedsSignature ==
  \A c \in CallIds :
    LET k == calls[c]
    IN  (k.backend = "trezor" /\ k.op = "signMessage" /\ k.pc = "Done")
          => /\ k.resp[1].signature # <<>>
             /\ k.out[1].value = Prefix0x \o k.resp[1].signature[1]
====
